---- MODULE Spec2Model ----
(***************************************************************************)
(* git-corun: run a command on a sequence of commits, one after another,   *)
(* in one scratch work tree (src/src/main.rs).                             *)
(*                                                                         *)
(* Spec      the run of main/app/run_app_for, one action per call site     *)
(* FairSpec  the same run with weak fairness (every call returns)          *)
(* SpecStatus, SpecFormat, SpecRunIn  the pure functions, applied to       *)
(*           inputs drawn from bounded sets                                *)
(***************************************************************************)
EXTENDS Integers, Sequences, FiniteSets, TLC

VARIABLES
    opts,            \* Options (main.rs:14-43)
    dirs,            \* the directories that exist on the file system
    dirs0,           \* history: the directories that existed before the run
    pc,              \* position of the single thread of control
    stash_commit,    \* app: Option<String>
    expansions,      \* app: the Vec<Vec<String>> collected at line 89
    commits,         \* app: the flattened Vec<String>
    tmpdir,          \* app: Option<path>, the work tree
    idx,             \* app: 1-based position of the for loop in commits
    commit,          \* run_app_for: the shadowing `commit` of line 123
    exit_status,     \* run_app_for: ExitStatus::code() of the latest command
    last_exit_code,  \* app: last_exit_code
    attempted,       \* create_directory: paths handed to remove_dir_all
    undeleted,       \* create_directory: paths remove_dir_all failed on
    child,           \* the latest process spawned by run_in, None if none
    shown,           \* the format string of the latest show_commit call
    log,             \* history: the calls made so far, in order
    err,             \* the kind of the error main received, "" if none
    exit_code,       \* the value given to process::exit, None while running
    arg,             \* pure-function harness: the input
    ret              \* pure-function harness: the output

vars == <<opts, dirs, dirs0, pc, stash_commit, expansions, commits, tmpdir, idx,
          commit, exit_status, last_exit_code, attempted, undeleted, child, shown,
          log, err, exit_code, arg, ret>>

----------------------------------------------------------------------------
(* Option<T> *)
None == <<>>
Some(x) == <<x>>
IsSome(o) == Len(o) = 1
Unwrap(o) == o[1]
UnwrapOr(o, d) == IF IsSome(o) THEN o[1] ELSE d

----------------------------------------------------------------------------
(* Bounds of the model *)
MaxSpecs == 2          \* longest list of revision specifiers
MaxChildren == 2       \* most children of the base directory (DirSpec)
MaxRunChildren == 1    \* most children of the base directory (Spec)
MaxCommand == 3        \* longest command (SpecRunIn)
CodeLo == 0 - 4        \* smallest exit code classified (SpecStatus, SpecFormat)
CodeHi == 300          \* largest exit code classified

(* Program constants *)
SentinelExit == 128    \* process::exit(128)
NoCodeExit == 255      \* unwrap_or(255)
PanicExit == 101       \* exit status of a Rust panic (expect, line 205)
RetentionWeeks == 7    \* Duration::weeks(7)
SecondsPerWeek == 604800
Now == 5000000         \* Local::now() of the retention scan, in seconds
NowCreate == 5000001   \* Local::now() that names the new directory

----------------------------------------------------------------------------
(* enum Status (main.rs:246-258): a tag and the payload of the variant.    *)
(* Success, Failure and Inconclusive carry an i32, Abort an Option<i32>,   *)
(* Pending nothing.                                                        *)
Pending == [tag |-> "Pending"]
Success(code) == [tag |-> "Success", val |-> code]
Failure(code) == [tag |-> "Failure", val |-> code]
Inconclusive(code) == [tag |-> "Inconclusive", val |-> code]
Abort(code) == [tag |-> "Abort", val |-> code]

(* impl From<ExitStatus> for Status (main.rs:288-297); the argument is     *)
(* exit_status.code(), an Option<i32>.  The match arms are tried in order. *)
StatusFromMutFailure(code) ==
    IF IsSome(code) /\ Unwrap(code) = 0 THEN Success(Unwrap(code))
    ELSE IF IsSome(code) /\ Unwrap(code) \in 1..127
        THEN Failure(Unwrap(code))
    ELSE IF IsSome(code) /\ Unwrap(code) = 125 THEN Inconclusive(Unwrap(code))
    ELSE Abort(code)

StatusFrom(code) ==
    IF IsSome(code) /\ Unwrap(code) = 0 THEN Success(Unwrap(code))
    ELSE IF IsSome(code) /\ (Unwrap(code) \in 1..124 \/ Unwrap(code) = 126
                             \/ Unwrap(code) = 127)
        THEN Failure(Unwrap(code))
    ELSE IF IsSome(code) /\ Unwrap(code) = 125 THEN Inconclusive(Unwrap(code))
    ELSE Abort(code)

(* Status::code (main.rs:277-285) *)
StatusCode(status) ==
    CASE status.tag = "Pending" -> None
      [] status.tag = "Success" -> Some(status.val)
      [] status.tag = "Failure" -> Some(status.val)
      [] status.tag = "Inconclusive" -> Some(status.val)
      [] status.tag = "Abort" -> status.val

(* Strings are sequences of pieces; the pieces of a number field are its   *)
(* characters, every other literal is one piece.                           *)
DigitChars == <<"0", "1", "2", "3", "4", "5", "6", "7", "8", "9">>

(* Display for u8: the decimal digits, most significant first *)
RECURSIVE ToDecimal(_)
ToDecimal(n) ==
    IF n < 10 THEN <<DigitChars[n + 1]>>
    ELSE ToDecimal(n \div 10) \o <<DigitChars[(n % 10) + 1]>>

(* {:>w}: spaces on the left up to width w, never a truncation *)
RECURSIVE PadLeft(_, _)
PadLeft(s, w) == IF Len(s) >= w THEN s ELSE PadLeft(<<" ">> \o s, w)

(* {:<w}, the alignment get_format does not use *)
RECURSIVE PadRight(_, _)
PadRight(s, w) == IF Len(s) >= w THEN s ELSE PadRight(s \o <<" ">>, w)

(* (code & 0xff) as u8 on an i32 in two's complement: the low 8 bits,      *)
(* the non-negative residue modulo 2^8 also for a negative code.           *)
LowByte(code) == code % 256

(* the prefix chosen by the match of get_format (main.rs:262-268); the     *)
(* glyphs (bullet, check mark, cross) are written o, v, x                  *)
Prefix(status) ==
    CASE status.tag = "Pending" -> "%C(bold)%C(yellow)o"
      [] status.tag = "Success" -> "%C(bold)%C(green)v"
      [] status.tag = "Failure" -> "%C(bold)%C(red)x"
      [] status.tag = "Inconclusive" -> "%C(bold)%C(blue)?"
      [] status.tag = "Abort" -> "%C(bold)%C(red)!"

(* Status::get_format (main.rs:261-275) *)
GetFormatMutNoMask(status) ==
    IF IsSome(StatusCode(status))
    THEN <<Prefix(status)>>
         \o PadLeft(ToDecimal(IF Unwrap(StatusCode(status)) < 0
                              THEN 0 - Unwrap(StatusCode(status))
                              ELSE Unwrap(StatusCode(status))), 3)
         \o <<"%Creset">>
    ELSE <<Prefix(status), " ", " ", " ", "%Creset">>

GetFormat(status) ==
    IF IsSome(StatusCode(status))
    THEN <<Prefix(status)>>
         \o PadLeft(ToDecimal(LowByte(Unwrap(StatusCode(status)))), 3)
         \o <<"%Creset">>
    ELSE <<Prefix(status), " ", " ", " ", "%Creset">>

BaseFormat ==
    "%C(yellow)%h %C(bold)%G? %Creset%C(cyan)[%Cgreen%ad%C(cyan) by %Cred%an%C(cyan)]%Creset %s"

(* the format string print_commit builds (main.rs:160-161) *)
CommitFormat(status) == GetFormat(status) \o <<" ", BaseFormat>>

(* run_in, the choice of program and arguments (main.rs:170-183) *)
Tail1(s) == SubSeq(s, 2, Len(s))

SpawnArgsMutNoDashes(shell_command, command) ==
    IF shell_command
    THEN [exec_name |-> "/bin/bash",
          cmd_args |-> <<"-c", Head(command)>> \o Tail1(command)]
    ELSE [exec_name |-> Head(command), cmd_args |-> Tail1(command)]

SpawnArgs(shell_command, command) ==
    IF shell_command
    THEN [exec_name |-> "/bin/bash",
          cmd_args |-> <<"-c", Head(command), "--">> \o Tail1(command)]
    ELSE [exec_name |-> Head(command), cmd_args |-> Tail1(command)]

----------------------------------------------------------------------------
(* The version-control collaborator (mod git) and the environment.         *)

(* what the repository holds: the commits each specifier expands to *)
Specifiers == {"A", "B", "C"}
Hashes(spec) ==
    CASE spec = "A" -> <<"c1", "c2">>
      [] spec = "B" -> <<"c3">>
      [] spec = "C" -> <<>>
StashHash == "s0"

(* git::get_commit_hash: a full hash resolves to itself *)
GetCommitHash(ref) == IF ref = "refs/stash" THEN StashHash ELSE ref

(* exit results a command can end with: no code (killed by a signal), or   *)
(* a code of each class                                                    *)
ExitResults == {None, Some(0), Some(1), Some(125), Some(128)}

(* Paths.  The base directory, its children, the directory of --dir.       *)
BaseDir == <<"base">>
GivenDir == <<"dir">>
Join(base, name) == base \o <<name>>
Parent(path) == SubSeq(path, 1, Len(path) - 1)
Children(ds, base) == {p \in ds : Len(p) = Len(base) + 1 /\ Parent(p) = base}

(* names of children: a timestamp in DATE_FORMAT_STR, or anything else *)
TsName(t) == <<"ts", t>>
OtherName == <<"other", 0>>

(* Local.datetime_from_str(&name, DATE_FORMAT_STR).ok() *)
ParseName(name) == IF name[1] = "ts" THEN Some(name[2]) ELSE None
(* Local::now().format(DATE_FORMAT_STR).to_string() *)
FormatName(t) == TsName(t)

(* Duration::weeks(n), in seconds *)
Weeks(n) == n * SecondsPerWeek

(* children a second over the limit, a week over it, exactly at it, new,  *)
(* and one that is no timestamp                                            *)
ChildNames ==
    { TsName(Now - Weeks(RetentionWeeks) - 1),
      TsName(Now - Weeks(RetentionWeeks + 1)),
      TsName(Now - Weeks(RetentionWeeks)),
      TsName(Now),
      OtherName }
RunChildNames == {TsName(Now - Weeks(RetentionWeeks) - 1), OtherName}

(* the filter of the retention scan (main.rs:222-227) *)
IsStaleMutAtLeast(path, now) ==
    /\ IsSome(ParseName(path[Len(path)]))
    /\ now - Unwrap(ParseName(path[Len(path)])) >= Weeks(RetentionWeeks)

IsStale(path, now) ==
    /\ IsSome(ParseName(path[Len(path)]))
    /\ now - Unwrap(ParseName(path[Len(path)])) > Weeks(RetentionWeeks)

(* fs::create_dir_all: the path and every missing parent *)
RECURSIVE WithParentsMutNoLeaf(_)
WithParentsMutNoLeaf(path) ==
    IF Len(path) <= 1 THEN {}
    ELSE {Parent(path)} \cup WithParentsMutNoLeaf(Parent(path))

RECURSIVE WithParents(_)
WithParents(path) ==
    IF Len(path) = 0 THEN {} ELSE {path} \cup WithParents(Parent(path))

(* fs::remove_dir_all: the path and everything below it *)
IsPrefix(p, q) == Len(p) <= Len(q) /\ SubSeq(q, 1, Len(p)) = p
RemoveAll(ds, paths) == {d \in ds : \A p \in paths : ~IsPrefix(p, d)}

(* .into_iter().flatten().collect() (main.rs:90-92) *)
RECURSIVE FlattenMutBackwards(_)
FlattenMutBackwards(lists) ==
    IF lists = <<>> THEN <<>>
    ELSE FlattenMutBackwards(Tail(lists)) \o Head(lists)

RECURSIVE Flatten(_)
Flatten(lists) ==
    IF lists = <<>> THEN <<>> ELSE Head(lists) \o Flatten(Tail(lists))

----------------------------------------------------------------------------
(* the history *)
Ev(op, k, a, ok) == [op |-> op, k |-> k, a |-> a, ok |-> ok, st |-> ""]
Report(k, a, ok, status) ==
    [op |-> "show_commit", k |-> k, a |-> a, ok |-> ok,
     st |-> IF status.tag = "Pending" THEN "Pending" ELSE "Final"]
Logged(e) == log' = Append(log, e)

(* main's match on the result of app (main.rs:62-68) *)
MainExitMutZero(result) == IF result.ok THEN result.val ELSE 0

MainExit(result) == IF result.ok THEN result.val ELSE SentinelExit

(* an Err reaches main through the ? operators: nothing else runs *)
Fatal(kind) ==
    /\ pc' = "exited"
    /\ err' = kind
    /\ exit_code' = Some(MainExit([ok |-> FALSE]))

Running == pc # "exited"

----------------------------------------------------------------------------
(* The run: main -> app -> run_app_for.                                    *)

RECURSIVE SeqsUpTo(_, _)
SeqsUpTo(S, n) ==
    IF n = 0 THEN {<<>>}
    ELSE SeqsUpTo(S, n - 1)
         \cup {Append(q, x) : q \in {r \in SeqsUpTo(S, n - 1) : Len(r) = n - 1},
                              x \in S}

(* Options as structopt builds it: commits has at least one specifier     *)
(* (default_value), command at least one token (required), apply_index    *)
(* is skipped and so always false.                                         *)
OptionsSet ==
    [dir : {None, Some(GivenDir)},
     apply_stash : BOOLEAN,
     apply_index : {FALSE},
     shell_command : BOOLEAN,
     verbose : BOOLEAN,
     commits : SeqsUpTo(Specifiers, MaxSpecs) \ {<<>>},
     command : {<<"t1", "t2">>}]

(* the directories a previous run can have left behind *)
InitialDirs(names, max) ==
    {{}} \cup
    {{BaseDir} \cup {Join(BaseDir, n) : n \in N} :
        N \in {M \in SUBSET names : Cardinality(M) <= max}}

InitRun ==
    /\ opts \in OptionsSet
    /\ \E ds \in InitialDirs(RunChildNames, MaxRunChildren), given \in BOOLEAN :
          /\ given => IsSome(opts.dir)
          /\ dirs = ds \cup (IF given THEN {GivenDir} ELSE {})
    /\ dirs0 = dirs
    /\ pc = "get_git_dir"
    /\ stash_commit = None
    /\ expansions = <<>>
    /\ commits = <<>>
    /\ tmpdir = None
    /\ idx = 0
    /\ commit = ""
    /\ exit_status = None
    /\ last_exit_code = 0
    /\ attempted = {}
    /\ undeleted = {}
    /\ child = None
    /\ shown = <<>>
    /\ log = <<>>
    /\ err = ""
    /\ exit_code = None

Init ==
    /\ InitRun
    /\ arg = <<>>
    /\ ret = <<>>

(* line 73: git::get_git_dir()? *)
GetGitDir ==
    /\ pc = "get_git_dir"
    /\ \E ok \in BOOLEAN :
          /\ Logged(Ev("get_git_dir", 0, "", ok))
          /\ IF ok
             THEN /\ pc' = "get_stash"
                  /\ UNCHANGED <<err, exit_code>>
             ELSE Fatal("vc")
    /\ UNCHANGED <<opts, dirs0, dirs, stash_commit, expansions, commits, tmpdir, idx,
                   commit, exit_status, last_exit_code, attempted, undeleted, shown,
                   child, arg, ret>>

(* lines 76-82: the stash is resolved once, before the loop *)
GetStash ==
    /\ pc = "get_stash"
    /\ IF opts.apply_stash
       THEN \E ok \in BOOLEAN :
              /\ Logged(Ev("get_commit_hash", 0, "refs/stash", ok))
              /\ IF ok
                 THEN /\ stash_commit' = Some(GetCommitHash("refs/stash"))
                      /\ pc' = "expand"
                      /\ UNCHANGED <<err, exit_code>>
                 ELSE /\ Fatal("vc")
                      /\ UNCHANGED stash_commit
       ELSE IF opts.apply_index
       THEN \* unimplemented!() panics
            /\ pc' = "exited"
            /\ err' = "panic"
            /\ exit_code' = Some(PanicExit)
            /\ UNCHANGED <<stash_commit, log>>
       ELSE /\ stash_commit' = None
            /\ pc' = "expand"
            /\ UNCHANGED <<err, exit_code, log>>
    /\ UNCHANGED <<opts, dirs0, dirs, expansions, commits, tmpdir, idx, commit,
                   exit_status, last_exit_code, attempted, undeleted, shown, child, arg, ret>>

(* the calls of get_commit_hashes made for specifiers 1..n, the last one   *)
(* failing iff ~ok: collect::<Result<..>> stops at the first Err           *)
ExpandEvents(specs, n, ok) ==
    [j \in 1..n |-> Ev("get_commit_hashes", 0, specs[j], ok \/ j < n)]

(* lines 85-92 *)
ExpandMutPartial ==
    /\ pc = "expand"
    /\ \E n \in 1..(Len(opts.commits) + 1) :
          /\ expansions' = [j \in 1..(n - 1) |-> Hashes(opts.commits[j])]
          /\ commits' = Flatten(expansions')
          /\ log' = log \o ExpandEvents(opts.commits,
                                        IF n > Len(opts.commits) THEN n - 1 ELSE n,
                                        n > Len(opts.commits))
          /\ pc' = "create_directory"
          /\ UNCHANGED <<err, exit_code>>
    /\ UNCHANGED <<opts, dirs0, dirs, stash_commit, tmpdir, idx, commit,
                   exit_status, last_exit_code, attempted, undeleted, shown,
                   child, arg, ret>>

Expand ==
    /\ pc = "expand"
    /\ \/ \* every specifier resolves
          /\ expansions' = [j \in 1..Len(opts.commits) |-> Hashes(opts.commits[j])]
          /\ commits' = Flatten(expansions')
          /\ log' = log \o ExpandEvents(opts.commits, Len(opts.commits), TRUE)
          /\ pc' = "create_directory"
          /\ UNCHANGED <<err, exit_code>>
       \/ \* specifier n does not resolve
          \E n \in 1..Len(opts.commits) :
             /\ log' = log \o ExpandEvents(opts.commits, n, FALSE)
             /\ Fatal("vc")
             /\ UNCHANGED <<expansions, commits>>
    /\ UNCHANGED <<opts, dirs0, dirs, stash_commit, tmpdir, idx, commit, exit_status,
                   last_exit_code, attempted, undeleted, shown, child, arg, ret>>

(* the for loop of line 102: the next position, or the end of the loop *)
LoopNextMutReclone(k, list) ==
    IF k > Len(list) THEN "return"
    ELSE IF k > 1 THEN "clone_local" ELSE "get_commit_hash"

LoopNext(k, list) == IF k <= Len(list) THEN "get_commit_hash" ELSE "return"

(* the path chosen by the match of lines 211-239 *)
WorkTreePathMutBelow(o) ==
    IF IsSome(o.dir) THEN Join(Unwrap(o.dir), FormatName(NowCreate))
    ELSE Join(BaseDir, FormatName(NowCreate))

WorkTreePath(o) ==
    IF IsSome(o.dir) THEN Unwrap(o.dir)
    ELSE Join(BaseDir, FormatName(NowCreate))

(* the for_each of lines 228-233 hands every stale child to               *)
(* remove_dir_all, whether or not an earlier deletion failed              *)
ScanAttemptsMutStop(stale, undeletable) ==
    IF undeletable = {} THEN stale ELSE undeletable

ScanAttempts(stale, undeletable) == stale

(* lines 95-96 and create_directory (main.rs:208-244) *)
CreateDirectory ==
    /\ pc = "create_directory"
    /\ \/ \* --dir: the path as given, no scan
          /\ IsSome(opts.dir)
          /\ \E ok \in BOOLEAN :
                /\ Logged(Ev("create_dir_all", 0, "", ok))
                /\ IF ok
                   THEN /\ dirs' = dirs \cup WithParents(WorkTreePath(opts))
                        /\ tmpdir' = Some(WorkTreePath(opts))
                        /\ pc' = "clone_local"
                        /\ UNCHANGED <<err, exit_code>>
                   ELSE /\ Fatal("io")
                        /\ UNCHANGED <<dirs, tmpdir>>
          /\ UNCHANGED <<attempted, undeleted>>
       \/ \* no home directory: expect panics
          /\ ~IsSome(opts.dir)
          /\ pc' = "exited"
          /\ err' = "panic"
          /\ exit_code' = Some(PanicExit)
          /\ UNCHANGED <<dirs, tmpdir, attempted, undeleted, log>>
       \/ \* the base directory exists and fs::read_dir fails
          /\ ~IsSome(opts.dir)
          /\ BaseDir \in dirs
          /\ Logged(Ev("read_dir", 0, "", FALSE))
          /\ Fatal("io")
          /\ UNCHANGED <<dirs, tmpdir, attempted, undeleted>>
       \/ \* the scan (if the base directory exists), then the new directory
          /\ ~IsSome(opts.dir)
          /\ LET scan == BaseDir \in dirs
                 stale == IF scan
                          THEN {p \in Children(dirs, BaseDir) : IsStale(p, Now)}
                          ELSE {}
             IN \E undeletable \in SUBSET stale, ok \in BOOLEAN :
                  LET tried == ScanAttempts(stale, undeletable)
                      kept == RemoveAll(dirs, tried \ undeletable)
                      path == WorkTreePath(opts)
                  IN /\ attempted' = tried
                     /\ undeleted' = undeletable
                     /\ log' = log
                           \o (IF scan THEN <<Ev("read_dir", 0, "", TRUE)>>
                               ELSE <<>>)
                           \o <<Ev("create_dir_all", 0, "", ok)>>
                     /\ IF ok
                        THEN /\ dirs' = kept \cup WithParents(path)
                             /\ tmpdir' = Some(path)
                             /\ pc' = "clone_local"
                             /\ UNCHANGED <<err, exit_code>>
                        ELSE /\ dirs' = kept
                             /\ Fatal("io")
                             /\ UNCHANGED tmpdir
    /\ UNCHANGED <<opts, dirs0, stash_commit, expansions, commits, idx, commit,
                   exit_status, last_exit_code, shown, child, arg, ret>>

(* line 101: let mut last_exit_code = 0 *)
FirstExitCodeMutSentinel == SentinelExit

FirstExitCode == 0

(* lines 99-102: the clone, then the loop starts *)
CloneLocal ==
    /\ pc = "clone_local"
    /\ \E ok \in BOOLEAN :
          /\ Logged(Ev("clone_local", 0, "", ok))
          /\ IF ok
             THEN /\ last_exit_code' = FirstExitCode
                  /\ idx' = 1
                  /\ pc' = LoopNext(1, commits)
                  /\ UNCHANGED <<err, exit_code>>
             ELSE /\ Fatal("vc")
                  /\ UNCHANGED <<last_exit_code, idx>>
    /\ UNCHANGED <<opts, dirs0, dirs, stash_commit, expansions, commits, tmpdir,
                   commit, exit_status, attempted, undeleted, shown, child, arg, ret>>

----------------------------------------------------------------------------
(* run_app_for (main.rs:115-153), one action per statement that calls out  *)

(* the statements in program order *)
RunAppForStepsMutCleanFirst ==
    <<"get_commit_hash", "clean_work_dir", "checkout_detached", "apply_stash",
      "print_pending", "run_in", "erase_line", "print_final">>

RunAppForStepsMutPendingFirst ==
    <<"get_commit_hash", "print_pending", "checkout_detached",
      "clean_work_dir", "apply_stash", "run_in", "erase_line", "print_final">>

RunAppForSteps ==
    <<"get_commit_hash", "checkout_detached", "clean_work_dir", "apply_stash",
      "print_pending", "run_in", "erase_line", "print_final">>

(* the `if let Some(stash_commit)` of line 131, the `if !opts.verbose` of  *)
(* line 144                                                                *)
StepTakenMutVerbose(step, o, stash) ==
    CASE step = "apply_stash" -> IsSome(stash)
      [] step = "erase_line" -> o.verbose
      [] OTHER -> TRUE

StepTakenMutNoStash(step, o, stash) ==
    CASE step = "apply_stash" -> FALSE
      [] step = "erase_line" -> ~o.verbose
      [] OTHER -> TRUE

StepTaken(step, o, stash) ==
    CASE step = "apply_stash" -> IsSome(stash)
      [] step = "erase_line" -> ~o.verbose
      [] OTHER -> TRUE

StepIndex(step) == CHOOSE n \in 1..Len(RunAppForSteps) : RunAppForSteps[n] = step

RECURSIVE FirstTaken(_, _, _)
FirstTaken(n, o, stash) ==
    IF StepTaken(RunAppForSteps[n], o, stash) THEN RunAppForSteps[n]
    ELSE FirstTaken(n + 1, o, stash)

(* the statement run after `step` has returned Ok *)
NextStep(step, o, stash) == FirstTaken(StepIndex(step) + 1, o, stash)

(* line 152 *)
RunAppForResultMutStrict(status) ==
    IF status = Some(0) THEN [ok |-> TRUE, val |-> 0] ELSE [ok |-> FALSE]

RunAppForResultMutDefault(status) == [ok |-> TRUE, val |-> UnwrapOr(status, 1)]

RunAppForResult(status) == [ok |-> TRUE, val |-> UnwrapOr(status, NoCodeExit)]

(* a collaborator call on the work tree: logged, fatal when it fails *)
GitStepMutIgnore(step, a) ==
    /\ pc = step
    /\ \E ok \in BOOLEAN :
          /\ Logged(Ev(step, idx, a, ok))
          /\ pc' = NextStep(step, opts, stash_commit)
          /\ UNCHANGED <<err, exit_code>>

GitStep(step, a) ==
    /\ pc = step
    /\ \E ok \in BOOLEAN :
          /\ Logged(Ev(step, idx, a, ok))
          /\ IF ok
             THEN /\ pc' = NextStep(step, opts, stash_commit)
                  /\ UNCHANGED <<err, exit_code>>
             ELSE Fatal("vc")

(* line 123 *)
ResolveCommit ==
    /\ pc = "get_commit_hash"
    /\ \E ok \in BOOLEAN :
          /\ Logged(Ev("get_commit_hash", idx, commits[idx], ok))
          /\ IF ok
             THEN /\ commit' = GetCommitHash(commits[idx])
                  /\ pc' = NextStep("get_commit_hash", opts, stash_commit)
                  /\ UNCHANGED <<err, exit_code>>
             ELSE /\ Fatal("vc")
                  /\ UNCHANGED commit
    /\ UNCHANGED <<opts, dirs0, dirs, stash_commit, expansions, commits, tmpdir, idx,
                   exit_status, last_exit_code, attempted, undeleted, shown, child,
                   arg, ret>>

(* line 126 *)
CheckoutDetached ==
    /\ GitStep("checkout_detached", commit)
    /\ UNCHANGED <<opts, dirs0, dirs, stash_commit, expansions, commits, tmpdir, idx,
                   commit, exit_status, last_exit_code, attempted, undeleted, shown,
                   child, arg, ret>>

(* line 129 *)
CleanWorkDir ==
    /\ GitStep("clean_work_dir", commit)
    /\ UNCHANGED <<opts, dirs0, dirs, stash_commit, expansions, commits, tmpdir, idx,
                   commit, exit_status, last_exit_code, attempted, undeleted, shown,
                   child, arg, ret>>

(* lines 131-134 *)
ApplyStash ==
    /\ IsSome(stash_commit)
    /\ GitStep("apply_stash", Unwrap(stash_commit))
    /\ UNCHANGED <<opts, dirs0, dirs, stash_commit, expansions, commits, tmpdir, idx,
                   commit, exit_status, last_exit_code, attempted, undeleted, shown,
                   child, arg, ret>>

(* line 137: print_commit(.., Status::Pending) *)
PrintPending ==
    /\ pc = "print_pending"
    /\ \E ok \in BOOLEAN :
          /\ Logged(Report(idx, commit, ok, Pending))
          /\ IF ok
             THEN /\ shown' = CommitFormat(Pending)
                  /\ pc' = NextStep("print_pending", opts, stash_commit)
                  /\ UNCHANGED <<err, exit_code>>
             ELSE /\ Fatal("vc")
                  /\ UNCHANGED shown
    /\ UNCHANGED <<opts, dirs0, dirs, stash_commit, expansions, commits, tmpdir, idx,
                   commit, exit_status, last_exit_code, attempted, undeleted, child,
                   arg, ret>>

(* line 140 and run_in (main.rs:166-202): the process is spawned in the    *)
(* work tree and waited for; status() is Err when it cannot be launched    *)
RunIn ==
    /\ pc = "run_in"
    /\ LET sp == SpawnArgs(opts.shell_command, opts.command)
           io == IF opts.verbose THEN "inherit" ELSE "null"
       IN child' = Some([exec_name |-> sp.exec_name, cmd_args |-> sp.cmd_args,
                         current_dir |-> Unwrap(tmpdir), stdin |-> "null",
                         stdout |-> io, stderr |-> io])
    /\ \/ /\ Logged(Ev("spawn", idx, commit, FALSE))
          /\ Fatal("spawn")
          /\ UNCHANGED exit_status
       \/ \E result \in ExitResults :
             /\ Logged(Ev("spawn", idx, commit, TRUE))
             /\ exit_status' = result
             /\ pc' = NextStep("run_in", opts, stash_commit)
             /\ UNCHANGED <<err, exit_code>>
    /\ UNCHANGED <<opts, dirs0, dirs, stash_commit, expansions, commits, tmpdir, idx,
                   commit, last_exit_code, attempted, undeleted, shown, arg, ret>>

(* lines 144-149: cursor up one line, clear it *)
EraseLine ==
    /\ pc = "erase_line"
    /\ ~opts.verbose
    /\ \E ok \in BOOLEAN :
          /\ Logged(Ev("erase_line", idx, commit, ok))
          /\ IF ok
             THEN /\ pc' = NextStep("erase_line", opts, stash_commit)
                  /\ UNCHANGED <<err, exit_code>>
             ELSE Fatal("io")
    /\ UNCHANGED <<opts, dirs0, dirs, stash_commit, expansions, commits, tmpdir, idx,
                   commit, exit_status, last_exit_code, attempted, undeleted, shown,
                   child, arg, ret>>

(* lines 141, 150-152 and the loop of lines 102-110: the final report,     *)
(* the return of run_app_for, the assignment to last_exit_code             *)
PrintFinal ==
    /\ pc = "print_final"
    /\ \E ok \in BOOLEAN :
          /\ Logged(Report(idx, commit, ok, StatusFrom(exit_status)))
          /\ IF ok /\ RunAppForResult(exit_status).ok
             THEN /\ shown' = CommitFormat(StatusFrom(exit_status))
                  /\ last_exit_code' = RunAppForResult(exit_status).val
                  /\ idx' = idx + 1
                  /\ pc' = LoopNext(idx + 1, commits)
                  /\ UNCHANGED <<err, exit_code>>
             ELSE /\ Fatal(IF ok THEN "command" ELSE "vc")
                  /\ shown' = IF ok THEN CommitFormat(StatusFrom(exit_status))
                              ELSE shown
                  /\ UNCHANGED <<last_exit_code, idx>>
    /\ UNCHANGED <<opts, dirs0, dirs, stash_commit, expansions, commits, tmpdir,
                   commit, exit_status, attempted, undeleted, child, arg, ret>>

(* line 112 and main's process::exit(exit_code) *)
AppReturn ==
    /\ pc = "return"
    /\ pc' = "exited"
    /\ exit_code' = Some(MainExit([ok |-> TRUE, val |-> last_exit_code]))
    /\ UNCHANGED <<opts, dirs0, dirs, stash_commit, expansions, commits, tmpdir, idx,
                   commit, exit_status, last_exit_code, attempted, undeleted, shown,
                   child, log, err, arg, ret>>

Next ==
    \/ GetGitDir
    \/ GetStash
    \/ Expand
    \/ CreateDirectory
    \/ CloneLocal
    \/ ResolveCommit
    \/ CheckoutDetached
    \/ CleanWorkDir
    \/ ApplyStash
    \/ PrintPending
    \/ RunIn
    \/ EraseLine
    \/ PrintFinal
    \/ AppReturn

Spec == Init /\ [][Next]_vars

(* every call returns: the thread of control always takes its next step *)
FairSpec == Spec /\ WF_vars(Next)

----------------------------------------------------------------------------
(* The pure functions, applied to inputs drawn from bounded sets.  The     *)
(* run does not move: its variables stay as they are before main starts.   *)

Codes == CodeLo..CodeHi
ExitCodeInputs == {None} \cup {Some(c) : c \in Codes}

(* every value of enum Status with a code in Codes *)
StatusInputs ==
    {Pending, Abort(None)}
    \cup {Success(c) : c \in Codes} \cup {Failure(c) : c \in Codes}
    \cup {Inconclusive(c) : c \in Codes} \cup {Abort(Some(c)) : c \in Codes}

Tokens == {"echo hi", "extra", "--"}
CommandInputs == SeqsUpTo(Tokens, MaxCommand) \ {<<>>}

InitPure ==
    /\ opts = [dir |-> None, apply_stash |-> FALSE, apply_index |-> FALSE,
               shell_command |-> FALSE, verbose |-> FALSE,
               commits |-> <<"A">>, command |-> <<"t1">>]
    /\ dirs = {}
    /\ dirs0 = {}
    /\ pc = "pure"
    /\ stash_commit = None
    /\ expansions = <<>>
    /\ commits = <<>>
    /\ tmpdir = None
    /\ idx = 0
    /\ commit = ""
    /\ exit_status = None
    /\ last_exit_code = 0
    /\ attempted = {}
    /\ undeleted = {}
    /\ child = None
    /\ shown = <<>>
    /\ log = <<>>
    /\ err = ""
    /\ exit_code = None
    /\ ret = <<>>
    /\ \/ \E c \in ExitCodeInputs : arg = [fn |-> "from", code |-> c]
       \/ \E st \in StatusInputs : arg = [fn |-> "get_format", status |-> st]
       \/ \E sh \in BOOLEAN, cmd \in CommandInputs :
             arg = [fn |-> "run_in", shell_command |-> sh, command |-> cmd]

ApplyFrom ==
    /\ pc = "pure"
    /\ arg.fn = "from"
    /\ ret' = StatusFrom(arg.code)
    /\ pc' = "pure_done"
    /\ UNCHANGED <<opts, dirs0, dirs, stash_commit, expansions, commits, tmpdir, idx,
                   commit, exit_status, last_exit_code, attempted, undeleted, child,
                   shown, log, err, exit_code, arg>>

ApplyGetFormat ==
    /\ pc = "pure"
    /\ arg.fn = "get_format"
    /\ ret' = GetFormat(arg.status)
    /\ pc' = "pure_done"
    /\ UNCHANGED <<opts, dirs0, dirs, stash_commit, expansions, commits, tmpdir, idx,
                   commit, exit_status, last_exit_code, attempted, undeleted, child,
                   shown, log, err, exit_code, arg>>

ApplySpawnArgs ==
    /\ pc = "pure"
    /\ arg.fn = "run_in"
    /\ ret' = SpawnArgs(arg.shell_command, arg.command)
    /\ pc' = "pure_done"
    /\ UNCHANGED <<opts, dirs0, dirs, stash_commit, expansions, commits, tmpdir, idx,
                   commit, exit_status, last_exit_code, attempted, undeleted, child,
                   shown, log, err, exit_code, arg>>

NextPure ==
    \/ ApplyFrom
    \/ ApplyGetFormat
    \/ ApplySpawnArgs

PureSpec == InitPure /\ [][NextPure]_vars

Applied(fn) == pc = "pure_done" /\ arg.fn = fn

----------------------------------------------------------------------------
(* C1: the classification is total and exact.  Code 0 is Success, 1..124,  *)
(* 126 and 127 are Failure, 125 is Inconclusive, every other code and the  *)
(* absence of a code is Abort; the outcome carries the input unchanged.    *)
FailureCodes == (1..124) \cup {126, 127}

C1_StatusExact ==
    Applied("from") =>
        LET c == arg.code
        IN /\ ret.tag \in {"Success", "Failure", "Inconclusive", "Abort"}
           /\ ret.tag = "Success" <=> c = Some(0)
           /\ ret.tag = "Failure" <=> (c # None /\ c[1] \in FailureCodes)
           /\ ret.tag = "Inconclusive" <=> c = Some(125)
           /\ ret.tag = "Abort" <=>
                 (c = None \/ c[1] < 0 \/ c[1] > 127)
           /\ IF ret.tag = "Abort" THEN ret.val = c ELSE ret.val = c[1]

(* an Inconclusive code has been classified *)
C1_Witness == Applied("from") /\ arg.code = Some(125) /\ ret.tag = "Inconclusive"

----------------------------------------------------------------------------
(* C9: for an outcome with a code the report shows the code reduced to     *)
(* its low 8 bits, a value in 0..255, right-aligned in 3 characters; for   *)
(* an outcome without a code it shows 3 blanks.                            *)
DigitOf(ch) == CHOOSE d \in 0..9 : DigitChars[d + 1] = ch
IsDigit(ch) == \E d \in 0..9 : DigitChars[d + 1] = ch

RECURSIVE DecimalValue(_)
DecimalValue(s) ==
    IF s = <<>> THEN 0
    ELSE 10 * DecimalValue(SubSeq(s, 1, Len(s) - 1)) + DigitOf(s[Len(s)])

(* the characters between the prefix and %Creset *)
CodeField(format) == SubSeq(format, 2, Len(format) - 1)

(* field is the number v written without leading zeros after k blanks *)
RightAligned(field, v) ==
    /\ Len(field) = 3
    /\ \E k \in 0..2 :
          /\ \A j \in 1..k : field[j] = " "
          /\ \A j \in (k + 1)..3 : IsDigit(field[j])
          /\ (k < 2) => field[k + 1] # "0"
          /\ DecimalValue(SubSeq(field, k + 1, 3)) = v

HasCode(status) ==
    status.tag \in {"Success", "Failure", "Inconclusive"}
    \/ (status.tag = "Abort" /\ status.val # None)
CodeOf(status) == IF status.tag = "Abort" THEN status.val[1] ELSE status.val

C9_DisplayLowByte ==
    Applied("get_format") =>
        IF HasCode(arg.status)
        THEN \E v \in 0..255 :
                /\ \E q \in (0 - 2)..2 : CodeOf(arg.status) = v + 256 * q
                /\ RightAligned(CodeField(ret), v)
        ELSE CodeField(ret) = <<" ", " ", " ">>

(* a code above 255 has been shown *)
C9_Witness ==
    /\ Applied("get_format")
    /\ arg.status = Abort(Some(300))
    /\ CodeField(ret) = <<" ", "4", "4">>

----------------------------------------------------------------------------
(* C10: in shell mode the process is the shell with -c t1 -- t2 .. tn;     *)
(* otherwise it is t1 with t2 .. tn; the order of the tokens is kept.      *)
C10_SpawnArguments ==
    Applied("run_in") =>
        LET t == arg.command
            n == Len(t)
        IN IF arg.shell_command
           THEN /\ ret.exec_name = "/bin/bash"
                /\ Len(ret.cmd_args) = n + 2
                /\ ret.cmd_args[1] = "-c"
                /\ ret.cmd_args[2] = t[1]
                /\ ret.cmd_args[3] = "--"
                /\ \A j \in 2..n : ret.cmd_args[j + 2] = t[j]
           ELSE /\ ret.exec_name = t[1]
                /\ Len(ret.cmd_args) = n - 1
                /\ \A j \in 2..n : ret.cmd_args[j - 1] = t[j]

(* the example of the specification *)
C10_Witness ==
    /\ Applied("run_in")
    /\ arg.shell_command
    /\ arg.command = <<"echo hi", "extra">>
    /\ ret.cmd_args = <<"-c", "echo hi", "--", "extra">>

----------------------------------------------------------------------------
(* Reading the history *)
Calls(op) == SelectSeq(log, LAMBDA e : e.op = op)
CallsFor(op, k) == {p \in DOMAIN log : log[p].op = op /\ log[p].k = k}
OkBefore(op, k, q) ==
    \E p \in 1..(q - 1) : log[p].op = op /\ log[p].k = k /\ log[p].ok
FinalReports(k) ==
    {p \in CallsFor("show_commit", k) : log[p].st = "Final" /\ log[p].ok}
Succeeded == pc = "exited" /\ err = ""

(* the number of commits the specifiers before position s expand to *)
RECURSIVE Offset(_)
Offset(s) ==
    IF s <= 1 THEN 0 ELSE Offset(s - 1) + Len(Hashes(opts.commits[s - 1]))
Total == Offset(Len(opts.commits) + 1)

(* the commit at position p of the concatenation: the one of the           *)
(* specifier s whose block p falls into                                    *)
ExpectedAt(p) ==
    LET s == CHOOSE t \in 1..Len(opts.commits) :
                 Offset(t) < p /\ p <= Offset(t + 1)
    IN Hashes(opts.commits[s])[p - Offset(s)]

----------------------------------------------------------------------------
(* C2: the commits are processed in the order of the concatenation of the  *)
(* expansions, each position once, the command once per commit, and a      *)
(* commit is finished before the preparation of the next one starts.       *)
C2_ProcessedInOrder ==
    LET spawns == Calls("spawn")
    IN /\ \A p \in 1..(Len(log) - 1) : log[p].k <= log[p + 1].k
       /\ \A p \in DOMAIN spawns :
             /\ p <= Total
             /\ spawns[p].k = p
             /\ spawns[p].a = ExpectedAt(p)
       /\ \A q \in DOMAIN log :
             (log[q].k > 1 /\ log[q].op = "get_commit_hash")
                 => FinalReports(log[q].k - 1) # {}
       /\ Succeeded =>
             /\ Len(spawns) = Total
             /\ \A k \in 1..Total :
                   /\ Cardinality(CallsFor("checkout_detached", k)) = 1
                   /\ Cardinality(CallsFor("clean_work_dir", k)) = 1
                   /\ Cardinality(CallsFor("spawn", k)) = 1
                   /\ Cardinality(FinalReports(k)) = 1

(* the example of the specification has run to its end *)
C2_Witness ==
    /\ Succeeded
    /\ opts.commits = <<"A", "B">>
    /\ [p \in DOMAIN Calls("spawn") |-> Calls("spawn")[p].a] = <<"c1", "c2", "c3">>

----------------------------------------------------------------------------
(* C3: a run without fatal error and with at least one commit returns the  *)
(* exit code of the command of the last commit, 255 when that command      *)
(* ended without a code, whatever the earlier commands returned.           *)
C3_LastExitCode ==
    (Succeeded /\ Total >= 1) =>
        /\ Calls("spawn")[Len(Calls("spawn"))].k = Total
        /\ exit_code = Some(IF exit_status = None THEN 255 ELSE exit_status[1])

(* the last command was killed after an earlier one had failed *)
C3_Witness ==
    /\ Succeeded
    /\ Total >= 2
    /\ exit_status = None
    /\ exit_code = Some(255)

----------------------------------------------------------------------------
(* C4: for every commit, clean runs only after that commit's checkout has  *)
(* succeeded, stash application only if a stash is configured and after    *)
(* the clean has succeeded, the command only after all of them.            *)
C4_PreparationOrder ==
    \A q \in DOMAIN log :
        LET e == log[q]
        IN /\ e.op = "clean_work_dir" => OkBefore("checkout_detached", e.k, q)
           /\ e.op = "apply_stash" =>
                 /\ opts.apply_stash
                 /\ OkBefore("clean_work_dir", e.k, q)
           /\ e.op = "spawn" =>
                 /\ OkBefore("checkout_detached", e.k, q)
                 /\ OkBefore("clean_work_dir", e.k, q)
                 /\ opts.apply_stash => OkBefore("apply_stash", e.k, q)

(* the command of the second commit has run, a stash being applied *)
C4_Witness ==
    /\ opts.apply_stash
    /\ CallsFor("spawn", 2) # {}
    /\ CallsFor("apply_stash", 2) # {}

----------------------------------------------------------------------------
(* C5: a failed version-control call for commit k stops the run: nothing   *)
(* is called after it, for commit k or for a later commit.                 *)
VcOps ==
    {"get_commit_hash", "checkout_detached", "clean_work_dir", "apply_stash",
     "show_commit"}

C5_FatalStopsTheRun ==
    \A p \in DOMAIN log :
        (log[p].k >= 1 /\ log[p].op \in VcOps /\ ~log[p].ok) =>
            /\ pc = "exited"
            /\ p = Len(log)
            /\ \A q \in DOMAIN log : log[q].k <= log[p].k

(* the checkout of commit 2 of 3 has failed *)
C5_Witness ==
    /\ Len(commits) = 3
    /\ log # <<>>
    /\ log[Len(log)] = Ev("checkout_detached", 2, "c2", FALSE)
    /\ pc = "exited"

----------------------------------------------------------------------------
(* C6: when every call succeeds and every command is launched, the run     *)
(* comes to its end after the command has run for every commit, whatever   *)
(* the commands returned.                                                  *)
SomeCallFailed == \E p \in DOMAIN log : ~log[p].ok

C6_EveryCommitProcessed ==
    <>(/\ pc = "exited"
       /\ \/ SomeCallFailed
          \/ err = "panic"
          \/ /\ err = ""
             /\ Len(Calls("spawn")) = Len(commits)
             /\ \A k \in 1..Len(commits) : FinalReports(k) # {})

(* a run has ended well after commands that failed, were inconclusive and  *)
(* aborted                                                                 *)
C6_Witness ==
    /\ Succeeded
    /\ Len(commits) = 3
    /\ last_exit_code = 125
    /\ ~SomeCallFailed

----------------------------------------------------------------------------
(* C7: a failed call ends the run at once with exit code 128; nothing is   *)
(* called after it and the exit code of an earlier command is not          *)
(* returned.                                                               *)
C7_FatalExitsWithSentinel ==
    /\ SentinelExit # 0
    /\ \A p \in DOMAIN log :
          ~log[p].ok =>
              /\ p = Len(log)
              /\ pc = "exited"
              /\ err \in {"vc", "io", "spawn"}
              /\ exit_code = Some(SentinelExit)
    /\ (pc = "exited" /\ err \in {"vc", "io", "spawn"}) =>
          /\ SomeCallFailed
          /\ exit_code = Some(SentinelExit)

(* the command of the second commit could not be launched after the first  *)
(* command had returned 1                                                  *)
C7_Witness ==
    /\ pc = "exited"
    /\ err = "spawn"
    /\ idx = 2
    /\ last_exit_code = 1
    /\ exit_code = Some(128)

----------------------------------------------------------------------------
(* create_directory and what follows it, on every file system of          *)
(* InitialDirs: the run has reached line 95 for the single specifier A    *)
(* without a stash.                                                        *)
InitDir ==
    /\ \E d \in {None, Some(GivenDir)} :
          opts = [dir |-> d, apply_stash |-> FALSE, apply_index |-> FALSE,
                  shell_command |-> FALSE, verbose |-> FALSE,
                  commits |-> <<"A">>, command |-> <<"t1">>]
    /\ \E ds \in InitialDirs(ChildNames, MaxChildren), given \in BOOLEAN :
          /\ given => IsSome(opts.dir)
          /\ dirs = ds \cup (IF given THEN {GivenDir} ELSE {})
    /\ dirs0 = dirs
    /\ pc = "create_directory"
    /\ stash_commit = None
    /\ expansions = <<Hashes("A")>>
    /\ commits = Flatten(expansions)
    /\ tmpdir = None
    /\ idx = 0
    /\ commit = ""
    /\ exit_status = None
    /\ last_exit_code = 0
    /\ attempted = {}
    /\ undeleted = {}
    /\ child = None
    /\ shown = <<>>
    /\ log = <<Ev("get_git_dir", 0, "", TRUE)>> \o ExpandEvents(<<"A">>, 1, TRUE)
    /\ err = ""
    /\ exit_code = None
    /\ arg = <<>>
    /\ ret = <<>>

(* the run from line 95 on; no stash is configured *)
NextDir ==
    \/ CreateDirectory
    \/ CloneLocal
    \/ ResolveCommit
    \/ CheckoutDetached
    \/ CleanWorkDir
    \/ PrintPending
    \/ RunIn
    \/ EraseLine
    \/ PrintFinal
    \/ AppReturn

DirSpec == InitDir /\ [][NextDir]_vars

(* the scan of the base directory has been carried out *)
Scanned == pc # "create_directory" /\ Calls("read_dir") # <<>>
               /\ Calls("read_dir")[1].ok
AgeOf(path) == Now - ParseName(path[Len(path)])[1]
Parses(path) == ParseName(path[Len(path)]) # None
Limit == 7 * 7 * 24 * 60 * 60

----------------------------------------------------------------------------
(* C8 as stated: after the scan a child whose name is a timestamp has      *)
(* been removed if and only if it is older than 7 weeks, and a child       *)
(* whose name is no timestamp has not been removed.                        *)
C8_RemovedIffOlder ==
    Scanned =>
        \A p \in Children(dirs0, BaseDir) :
            IF Parses(p) THEN (p \notin dirs) <=> (AgeOf(p) > Limit)
            ELSE p \in dirs

(* C8 as amended: the deletion is attempted if and only if the child is    *)
(* older than 7 weeks, and a child is removed if and only if its deletion  *)
(* was attempted and did not fail; so a child of at most 7 weeks and a     *)
(* child whose name is no timestamp stay.                                  *)
C8_AttemptedIffOlder ==
    Scanned =>
        /\ attempted \subseteq Children(dirs0, BaseDir)
        /\ undeleted \subseteq attempted
        /\ \A p \in Children(dirs0, BaseDir) :
              /\ p \in attempted <=> (Parses(p) /\ AgeOf(p) > Limit)
              /\ p \notin dirs <=> (p \in attempted /\ p \notin undeleted)

(* a child a second over the limit is gone, one exactly at it is there *)
C8_Witness ==
    /\ Scanned
    /\ Join(BaseDir, TsName(Now - Limit)) \in dirs
    /\ Join(BaseDir, TsName(Now - Limit - 1)) \in dirs0 \ dirs

----------------------------------------------------------------------------
(* C11: a commit processed without fatal error has exactly two reports:    *)
(* Pending after its preparation and before the command, then the          *)
(* classified outcome after the command; without --verbose the erase       *)
(* sequence is written once between the command and the final report,      *)
(* with --verbose never.                                                   *)
ExpectedTag(code) ==
    IF code = None THEN "Abort"
    ELSE IF code[1] = 0 THEN "Success"
    ELSE IF code[1] = 125 THEN "Inconclusive"
    ELSE IF code[1] \in FailureCodes THEN "Failure"
    ELSE "Abort"

TwoReports(k) ==
    LET reps == CallsFor("show_commit", k)
        sp == CallsFor("spawn", k)
        er == CallsFor("erase_line", k)
    IN /\ Cardinality(reps) = 2
       /\ Cardinality(sp) = 1
       /\ \E pp, fp \in reps, s \in sp :
             /\ pp < s /\ s < fp
             /\ log[pp].st = "Pending" /\ log[pp].ok
             /\ log[fp].st = "Final" /\ log[fp].ok
             /\ OkBefore("checkout_detached", k, pp)
             /\ OkBefore("clean_work_dir", k, pp)
             /\ opts.apply_stash => OkBefore("apply_stash", k, pp)
             /\ log[s].ok
             /\ IF opts.verbose THEN er = {}
                ELSE /\ Cardinality(er) = 1
                     /\ \A e \in er : s < e /\ e < fp /\ log[e].ok

C11_TwoReportsPerCommit ==
    /\ \A k \in 1..Len(commits) : FinalReports(k) # {} => TwoReports(k)
    /\ opts.verbose => Calls("erase_line") = <<>>
    /\ (log # <<>> /\ log[Len(log)].op = "show_commit" /\ log[Len(log)].ok) =>
          shown[1] = Prefix([tag |-> IF log[Len(log)].st = "Pending"
                                     THEN "Pending"
                                     ELSE ExpectedTag(exit_status)])

(* two commits have been reported without --verbose, the second one as     *)
(* inconclusive                                                            *)
C11_Witness ==
    /\ ~opts.verbose
    /\ FinalReports(2) # {}
    /\ exit_status = Some(125)
    /\ Len(Calls("erase_line")) = 2

----------------------------------------------------------------------------
(* the reports of commit k that have been emitted *)
Emitted(k) == {q \in CallsFor("show_commit", k) : log[q].ok}
FailedVcCalls ==
    {p \in DOMAIN log : log[p].k >= 1 /\ log[p].op \in VcOps /\ ~log[p].ok}

(* C12 as stated: when a version-control call fails for commit k, reports *)
(* have been emitted only for the commits before k, whichever call it is. *)
C12_NoReportOfFailedCommit ==
    \A p \in FailedVcCalls :
        \A q \in DOMAIN log :
            (log[q].op = "show_commit" /\ log[q].ok) => log[q].k < log[p].k

(* C12 as amended: no report has been emitted for a commit after k; none  *)
(* for k itself, unless the failed call is the one of the final report,   *)
(* and then exactly the Pending report of k has been emitted.             *)
C12_OnlyPendingOfFailedCommit ==
    \A p \in FailedVcCalls :
        /\ \A q \in DOMAIN log :
              (log[q].op = "show_commit" /\ log[q].ok) => log[q].k <= log[p].k
        /\ IF log[p].op = "show_commit" /\ log[p].st = "Final"
           THEN /\ Cardinality(Emitted(log[p].k)) = 1
                /\ \A q \in Emitted(log[p].k) : log[q].st = "Pending" /\ q < p
           ELSE Emitted(log[p].k) = {}

(* the clean of commit 2 has failed after commit 1 had been reported *)
C12_Witness ==
    /\ log # <<>>
    /\ log[Len(log)] = Ev("clean_work_dir", 2, commit, FALSE)
    /\ Cardinality(Emitted(1)) = 2
    /\ Emitted(2) = {}

----------------------------------------------------------------------------
(* C13: when a specifier does not resolve the run aborts before anything  *)
(* else happens: nothing is deleted or created, no clone, no checkout,    *)
(* clean, stash application, report or command, also not for the commits  *)
(* of the specifiers resolved before the failing one.                     *)
VisibleOps ==
    {"read_dir", "create_dir_all", "clone_local", "checkout_detached",
     "clean_work_dir", "apply_stash", "show_commit", "spawn", "erase_line"}

C13_UnresolvedAbortsEarly ==
    \A p \in DOMAIN log :
        (log[p].op = "get_commit_hashes" /\ ~log[p].ok) =>
            /\ pc = "exited"
            /\ exit_code = Some(SentinelExit)
            /\ dirs = dirs0
            /\ attempted = {}
            /\ tmpdir = None
            /\ child = None
            /\ commits = <<>>
            /\ \A q \in DOMAIN log : log[q].op \notin VisibleOps /\ log[q].k = 0

(* B did not resolve after A had, a stale directory being there *)
C13_Witness ==
    /\ opts.commits = <<"A", "B">>
    /\ opts.dir = None
    /\ Len(log) >= 2
    /\ log[Len(log)] = Ev("get_commit_hashes", 0, "B", FALSE)
    /\ log[Len(log) - 1] = Ev("get_commit_hashes", 0, "A", TRUE)
    /\ \E d \in dirs0 : Len(d) = 2 /\ IsStale(d, Now)

----------------------------------------------------------------------------
(* C14: the specifiers are expanded first, then the work tree is acquired *)
(* (with its scan), then the repository is cloned once, then the loop     *)
(* runs; the scan happens at most once and the clone once, before the     *)
(* first checkout, and neither between two commits.                       *)
PosOf(op) == {p \in DOMAIN log : log[p].op = op}
AllExpandedBefore(q) ==
    Cardinality({e \in PosOf("get_commit_hashes") : e < q /\ log[e].ok})
        = Len(opts.commits)

C14_RunLevelOrder ==
    LET scans == PosOf("read_dir")
        creates == PosOf("create_dir_all")
        clones == PosOf("clone_local")
    IN /\ Cardinality(scans) <= 1
       /\ Cardinality(creates) <= 1
       /\ Cardinality(clones) <= 1
       /\ \A e \in PosOf("get_commit_hashes") :
             \A q \in 1..(e - 1) : log[q].op \notin VisibleOps
       /\ \A s \in scans :
             /\ AllExpandedBefore(s)
             /\ opts.dir = None
             /\ log[s].ok => \E c \in creates : s < c
       /\ \A c \in creates : AllExpandedBefore(c)
       /\ \A cl \in clones : \E c \in creates : c < cl /\ log[c].ok
       /\ \A q \in DOMAIN log :
             log[q].k >= 1 => \E cl \in clones : cl < q /\ log[cl].ok
       /\ pc \in {"get_commit_hash", "return"} => Cardinality(clones) = 1

(* the second commit has been checked out in a run that scanned *)
C14_Witness ==
    /\ PosOf("read_dir") # {}
    /\ CallsFor("checkout_detached", 2) # {}
    /\ Len(opts.commits) = 2

----------------------------------------------------------------------------
(* C15: with --dir the given path is the work tree, it is created if      *)
(* absent, and there is no scan: no directory is deleted, whatever the    *)
(* base directory holds.                                                  *)
C15_GivenDirUsedVerbatim ==
    IsSome(opts.dir) =>
        /\ PosOf("read_dir") = {}
        /\ attempted = {}
        /\ undeleted = {}
        /\ dirs0 \subseteq dirs
        /\ (\E c \in PosOf("create_dir_all") : log[c].ok) <=> IsSome(tmpdir)
        /\ IsSome(tmpdir) =>
              /\ tmpdir = opts.dir
              /\ dirs = dirs0 \cup {opts.dir[1]}
        /\ IsSome(child) => child[1].current_dir = opts.dir[1]

(* the run has ended in a given directory that did not exist, next to a   *)
(* stale directory that is still there                                    *)
C15_Witness ==
    /\ IsSome(opts.dir)
    /\ Succeeded
    /\ opts.dir[1] \in dirs \ dirs0
    /\ \E d \in dirs0 : Len(d) = 2 /\ IsStale(d, Now) /\ d \in dirs

----------------------------------------------------------------------------
(* C16: the run never deletes its own work tree: only directories that    *)
(* were under the base directory before the work tree was created are     *)
(* removed, and once the work tree is acquired it exists at every step    *)
(* and at the end of the run.                                             *)
WorkTreeExists ==
    /\ IsSome(tmpdir) =>
          /\ tmpdir[1] \in dirs
          /\ tmpdir[1] \notin attempted
    /\ dirs0 \ dirs \subseteq attempted
    /\ attempted \subseteq Children(dirs0, BaseDir)
    /\ \A q \in DOMAIN log :
          (log[q].k >= 1 \/ log[q].op = "clone_local") => IsSome(tmpdir)

C16_WorkTreeNeverDeleted ==
    /\ []WorkTreeExists
    /\ [][IsSome(tmpdir) => (dirs' = dirs /\ tmpdir' = tmpdir)]_vars

(* a stale directory has been removed and the command of the second       *)
(* commit has run in the work tree                                        *)
C16_Witness ==
    /\ dirs0 \ dirs # {}
    /\ IsSome(tmpdir)
    /\ tmpdir[1] \in dirs \ dirs0
    /\ CallsFor("spawn", 2) # {}
    /\ pc = "exited"

----------------------------------------------------------------------------
(* C17: a deletion that fails during the scan is not fatal: every stale   *)
(* child is still handed to the deletion, the work tree is created and    *)
(* the run goes on to the clone and the loop; a failure to create the     *)
(* work tree aborts the run before any clone or checkout.                 *)
StaleBefore == {p \in Children(dirs0, BaseDir) : Parses(p) /\ AgeOf(p) > Limit}

C17_DeletionFailureRecovered ==
    /\ Scanned =>
          /\ attempted = StaleBefore
          /\ \A p \in attempted : p \in dirs <=> p \in undeleted
          /\ \E s \in PosOf("read_dir"), c \in PosOf("create_dir_all") : s < c
          /\ pc = "exited" => (err = "" \/ SomeCallFailed)
          /\ (\E c \in PosOf("create_dir_all") : log[c].ok) =>
                /\ IsSome(tmpdir)
                /\ tmpdir[1] \in dirs
                /\ pc = "clone_local" <=> PosOf("clone_local") = {}
    /\ \A c \in PosOf("create_dir_all") :
          ~log[c].ok =>
              /\ c = Len(log)
              /\ pc = "exited"
              /\ exit_code = Some(SentinelExit)
              /\ tmpdir = None

(* of two stale directories one could not be deleted, the other is gone,  *)
(* and the run has ended well                                             *)
C17_Witness ==
    /\ Succeeded
    /\ Cardinality(attempted) = 2
    /\ Cardinality(undeleted) = 1
    /\ Cardinality(dirs0 \ dirs) = 1
    /\ Len(Calls("spawn")) = Len(commits)

----------------------------------------------------------------------------
(* C18: with --stash one stash commit is resolved once, before the        *)
(* specifiers are expanded, and that commit is applied once in the        *)
(* preparation of every commit, after its clean, without being resolved   *)
(* again; without --stash nothing is resolved and nothing is applied.     *)
StashResolves ==
    {p \in DOMAIN log : log[p].op = "get_commit_hash" /\ log[p].a = "refs/stash"}

StashAppliedToEach ==
    /\ IF opts.apply_stash
       THEN /\ Cardinality(StashResolves) <= 1
            /\ \A r \in StashResolves :
                  /\ log[r].k = 0
                  /\ \A q \in 1..(r - 1) : log[q].op = "get_git_dir"
            /\ \A e \in PosOf("get_commit_hashes") :
                  \E r \in StashResolves : r < e /\ log[r].ok
            /\ \A k \in 1..Len(commits) :
                  CallsFor("spawn", k) # {} =>
                      /\ Cardinality(CallsFor("apply_stash", k)) = 1
                      /\ \A a \in CallsFor("apply_stash", k) : log[a].ok
       ELSE /\ StashResolves = {}
            /\ PosOf("apply_stash") = {}
            /\ stash_commit = None
    /\ \A a \in PosOf("apply_stash") :
          /\ log[a].a = StashHash
          /\ stash_commit = Some(log[a].a)
          /\ OkBefore("clean_work_dir", log[a].k, a)
          /\ Cardinality(CallsFor("apply_stash", log[a].k)) = 1

C18_SameStashForEveryCommit ==
    /\ []StashAppliedToEach
    /\ [][pc # "get_stash" => stash_commit' = stash_commit]_vars

(* the stash has been applied for three commits *)
C18_Witness ==
    /\ Succeeded
    /\ Len(commits) = 3
    /\ Cardinality(PosOf("apply_stash")) = 3
    /\ Cardinality(StashResolves) = 1

----------------------------------------------------------------------------
(* C19: when every specifier resolves and none expands to a commit, the   *)
(* run acquires the work tree and clones into it, checks nothing out,     *)
(* reports nothing, runs no command and returns 0.                        *)
C19_EmptyListReturnsZero ==
    (Total = 0 /\ pc \notin {"get_git_dir", "get_stash", "expand"}
               /\ AllExpandedBefore(Len(log) + 1)) =>
        /\ commits = <<>>
        /\ \A q \in DOMAIN log :
              /\ log[q].k = 0
              /\ log[q].op \notin {"checkout_detached", "clean_work_dir",
                                   "apply_stash", "show_commit", "spawn",
                                   "erase_line"}
        /\ child = None
        /\ pc \in {"return", "exited"} /\ err = "" =>
              /\ \E c \in PosOf("create_dir_all"), cl \in PosOf("clone_local") :
                    c < cl /\ log[c].ok /\ log[cl].ok
              /\ IsSome(tmpdir)
              /\ tmpdir[1] \in dirs
        /\ Succeeded => exit_code = Some(0)

(* two specifiers without commits: the run has ended with 0 *)
C19_Witness ==
    /\ Succeeded
    /\ opts.commits = <<"C", "C">>
    /\ PosOf("clone_local") # {}
    /\ exit_code = Some(0)

====
